---------------------------- MODULE Spec2Model ----------------------------
(***************************************************************************)
(* Model of the mail composition core:                                     *)
(*   - data/encoded_word.rs        EncodedWord (parse, encode_word,        *)
(*                                 decode_word)                            *)
(*   - resource/mod.rs             Embedded / EmbeddedWithCId              *)
(*   - render_template_engine/     RenderTemplateEngine::templates         *)
(*                                                                         *)
(* ASCII text is a sequence of byte values, UTF-8 text a sequence of       *)
(* chunks (one chunk = the bytes of one character).                        *)
(***************************************************************************)
EXTENDS Integers, Sequences, FiniteSets, TLC

VARIABLES
    cInput,     \* codec: the last constructor call (none / encode_word / parse)
    cWords,     \* codec: the EncodedWord values that call returned
    cDecoded,   \* codec: the result of decode_word on one of them
    embedded,   \* resource: every Embedded created so far, in creation order
    live,       \* resource: the Embedded values not yet moved out (consumed)
    origin,     \* resource: for each Embedded, the one its identifier is generated for
    withCId,    \* resource: the EmbeddedWithCId values held
    nextCid,    \* context: the content-id generator
    lastCall,   \* resource: the last call, its arguments and what it returned
    id2spec,    \* template engine: the registry, template id -> TemplateSpec
    tcall       \* template engine: each templates() call, its locals and result

codecVars == <<cInput, cWords, cDecoded>>

resVars == <<embedded, live, origin, withCId, nextCid, lastCall>>

tplVars == <<id2spec, tcall>>

vars == <<cInput, cWords, cDecoded, embedded, live, origin, withCId, nextCid, lastCall,
          id2spec, tcall>>

-----------------------------------------------------------------------------
(* Bytes and ASCII                                                         *)

\* The printable ASCII characters, from 32 (space) to 126 (~), in order; the
\* double quote (34), the backslash (92) and the grave accent (96) are written
\* by name.
AsciiTable ==
    <<" ", "!", "dquote", "#", "$", "%", "&", "'", "(", ")", "*", "+", ",", "-",
      ".", "/", "0", "1", "2", "3", "4", "5", "6", "7", "8", "9", ":", ";",
      "<", "=", ">", "?", "@", "A", "B", "C", "D", "E", "F", "G", "H", "I",
      "J", "K", "L", "M", "N", "O", "P", "Q", "R", "S", "T", "U", "V", "W",
      "X", "Y", "Z", "[", "bslash", "]", "^", "_", "grave", "a", "b", "c", "d", "e",
      "f", "g", "h", "i", "j", "k", "l", "m", "n", "o", "p", "q", "r", "s",
      "t", "u", "v", "w", "x", "y", "z", "{", "|", "}", "~">>

\* The byte value of a printable ASCII character.
Ord == [c \in {AsciiTable[i] : i \in 1..Len(AsciiTable)} |->
           31 + CHOOSE i \in 1..Len(AsciiTable) : AsciiTable[i] = c]

\* An ASCII string written as a tuple of characters, as its bytes.
Asc(s) == [i \in 1..Len(s) |-> Ord[s[i]]]

RECURSIVE Flatten(_)
Flatten(ss) == IF ss = <<>> THEN <<>> ELSE Head(ss) \o Flatten(Tail(ss))

\* s[a..b] of Rust: zero-based, half-open.  It aborts unless a <= b <= len.
SliceOk(s, a, b) == a <= b /\ b <= Len(s)
Slice(s, a, b) == SubSeq(s, a + 1, b)

\* str::find of one character: the zero-based index of its first occurrence, or -1.
Find(s, c) ==
    IF \E i \in 1..Len(s) : s[i] = c
    THEN (CHOOSE i \in 1..Len(s) : s[i] = c /\ \A j \in 1..(i - 1) : s[j] # c) - 1
    ELSE -1

IsUpper(b) == b >= 65 /\ b <= 90
IsLower(b) == b >= 97 /\ b <= 122
IsDigit(b) == b >= 48 /\ b <= 57
IsAlnum(b) == IsUpper(b) \/ IsLower(b) \/ IsDigit(b)

-----------------------------------------------------------------------------
(* The byte-level codecs used by the encoded word: codec::base64,          *)
(* codec::quoted_printable and String::from_utf8.                          *)

\* The character of the base64 alphabet with value v (0..63).
B64Char(v) ==
    IF v < 26 THEN 65 + v
    ELSE IF v < 52 THEN 97 + (v - 26)
    ELSE IF v < 62 THEN 48 + (v - 52)
    ELSE IF v = 62 THEN Ord["+"] ELSE Ord["/"]

\* The value of a base64 character, or -1.
B64Val(b) ==
    IF IsUpper(b) THEN b - 65
    ELSE IF IsLower(b) THEN b - 97 + 26
    ELSE IF IsDigit(b) THEN b - 48 + 52
    ELSE IF b = Ord["+"] THEN 62
    ELSE IF b = Ord["/"] THEN 63 ELSE -1

RECURSIVE base64_encode(_)
base64_encode(bs) ==
    IF Len(bs) = 0 THEN <<>>
    ELSE IF Len(bs) = 1 THEN
        <<B64Char(bs[1] \div 4), B64Char((bs[1] % 4) * 16), Ord["="], Ord["="]>>
    ELSE IF Len(bs) = 2 THEN
        <<B64Char(bs[1] \div 4), B64Char((bs[1] % 4) * 16 + bs[2] \div 16),
          B64Char((bs[2] % 16) * 4), Ord["="]>>
    ELSE
        <<B64Char(bs[1] \div 4), B64Char((bs[1] % 4) * 16 + bs[2] \div 16),
          B64Char((bs[2] % 16) * 4 + bs[3] \div 64), B64Char(bs[3] % 64)>>
        \o base64_encode(SubSeq(bs, 4, Len(bs)))

\* Well-formed base64: whole quads, padding only at the very end.
base64_valid(cs) ==
    /\ Len(cs) % 4 = 0
    /\ \A i \in 1..Len(cs) :
          \/ B64Val(cs[i]) >= 0
          \/ /\ cs[i] = Ord["="]
             /\ i >= Len(cs) - 1
             /\ cs[Len(cs)] = Ord["="]

RECURSIVE base64_bytes(_)
base64_bytes(cs) ==
    IF Len(cs) = 0 THEN <<>>
    ELSE LET v1 == B64Val(cs[1])
             v2 == B64Val(cs[2])
             v3 == B64Val(cs[3])
             v4 == B64Val(cs[4])
             b1 == v1 * 4 + v2 \div 16
             b2 == (v2 % 16) * 16 + v3 \div 4
             b3 == (v3 % 4) * 64 + v4
         IN  IF cs[3] = Ord["="] THEN <<b1>>
             ELSE IF cs[4] = Ord["="] THEN <<b1, b2>>
             ELSE <<b1, b2, b3>> \o base64_bytes(SubSeq(cs, 5, Len(cs)))

\* base64::encoded_word_decode: the bytes, or a failure.
base64_decode(cs) ==
    IF base64_valid(cs) THEN [ok |-> TRUE, bytes |-> base64_bytes(cs)]
    ELSE [ok |-> FALSE, bytes |-> <<>>]

HexChar(n) == IF n < 10 THEN 48 + n ELSE 55 + n

HexVal(b) == IF IsDigit(b) THEN b - 48
             ELSE IF b >= 65 /\ b <= 70 THEN b - 55 ELSE -1

\* The bytes the Q encoding of an encoded word writes as themselves, whatever
\* the context: the characters every context (text, comment, phrase) allows.
QSafe(b) == IsAlnum(b) \/ b \in {Ord["!"], Ord["*"], Ord["+"], Ord["-"], Ord["/"]}

quoted_printable_encode_byte(b) ==
    IF QSafe(b) THEN <<b>>
    ELSE IF b = Ord[" "] THEN <<Ord["_"]>>
    ELSE <<Ord["="], HexChar(b \div 16), HexChar(b % 16)>>

RECURSIVE quoted_printable_encode(_)
quoted_printable_encode(bs) ==
    IF bs = <<>> THEN <<>>
    ELSE quoted_printable_encode_byte(Head(bs)) \o quoted_printable_encode(Tail(bs))

RECURSIVE quoted_printable_valid(_)
quoted_printable_valid(cs) ==
    IF cs = <<>> THEN TRUE
    ELSE IF Head(cs) = Ord["="] THEN
        /\ Len(cs) >= 3
        /\ HexVal(cs[2]) >= 0
        /\ HexVal(cs[3]) >= 0
        /\ quoted_printable_valid(SubSeq(cs, 4, Len(cs)))
    ELSE quoted_printable_valid(Tail(cs))

RECURSIVE quoted_printable_bytes(_)
quoted_printable_bytes(cs) ==
    IF cs = <<>> THEN <<>>
    ELSE IF Head(cs) = Ord["="] THEN
        <<HexVal(cs[2]) * 16 + HexVal(cs[3])>>
        \o quoted_printable_bytes(SubSeq(cs, 4, Len(cs)))
    ELSE IF Head(cs) = Ord["_"] THEN <<Ord[" "]>> \o quoted_printable_bytes(Tail(cs))
    ELSE <<Head(cs)>> \o quoted_printable_bytes(Tail(cs))

\* quoted_printable::encoded_word_decode: the bytes, or a failure.
quoted_printable_decode(cs) ==
    IF quoted_printable_valid(cs) THEN [ok |-> TRUE, bytes |-> quoted_printable_bytes(cs)]
    ELSE [ok |-> FALSE, bytes |-> <<>>]

IsCont(bs, i) == i <= Len(bs) /\ bs[i] >= 128 /\ bs[i] <= 191

\* String::from_utf8 succeeds: the bytes are well-formed UTF-8.
RECURSIVE from_utf8_ok(_)
from_utf8_ok(bs) ==
    IF bs = <<>> THEN TRUE
    ELSE LET b == Head(bs)
             rest(n) == from_utf8_ok(SubSeq(bs, n + 1, Len(bs)))
         IN  IF b < 128 THEN rest(1)
             ELSE IF b >= 194 /\ b <= 223 THEN IsCont(bs, 2) /\ rest(2)
             ELSE IF b = 224 THEN
                 IsCont(bs, 2) /\ bs[2] >= 160 /\ IsCont(bs, 3) /\ rest(3)
             ELSE IF b = 237 THEN
                 IsCont(bs, 2) /\ bs[2] <= 159 /\ IsCont(bs, 3) /\ rest(3)
             ELSE IF b >= 225 /\ b <= 239 THEN
                 IsCont(bs, 2) /\ IsCont(bs, 3) /\ rest(3)
             ELSE IF b = 240 THEN
                 IsCont(bs, 2) /\ bs[2] >= 144 /\ IsCont(bs, 3) /\ IsCont(bs, 4) /\ rest(4)
             ELSE IF b = 244 THEN
                 IsCont(bs, 2) /\ bs[2] <= 143 /\ IsCont(bs, 3) /\ IsCont(bs, 4) /\ rest(4)
             ELSE IF b >= 241 /\ b <= 243 THEN
                 IsCont(bs, 2) /\ IsCont(bs, 3) /\ IsCont(bs, 4) /\ rest(4)
             ELSE FALSE

-----------------------------------------------------------------------------
(* grammar::encoded_word: the encoded-word grammar of a context            *)

EncodedWordContext == {"Text", "Phrase", "Comment"}

\* The longest encoded word, start and end included.
MaxEcwLen == 75

Especials == {Ord[c] : c \in {"(", ")", "<", ">", "@", ",", ";", ":", "dquote",
                              "/", "[", "]", "?", ".", "="}}

IsVChar(b) == b >= 33 /\ b <= 126

is_token_char(b) == IsVChar(b) /\ b \notin Especials

\* The characters the encoded text of a word may hold in a context.
valid_char_in_ec(b, ctx) ==
    IF ctx = "Text" THEN IsVChar(b) /\ b # Ord["?"]
    ELSE IF ctx = "Comment" THEN
        IsVChar(b) /\ b \notin {Ord["?"], Ord["("], Ord[")"], Ord["dquote"]}
    ELSE IsAlnum(b) \/ b \in {Ord["!"], Ord["*"], Ord["+"], Ord["-"], Ord["/"],
                              Ord["="], Ord["_"]}

\* "=?" charset "?" encoding "?" encoded-text "?=": charset and encoding are
\* tokens, the encoded text may be empty, and no field holds a "?".
is_encoded_word(word, ctx) ==
    /\ Len(word) >= 6
    /\ Len(word) <= MaxEcwLen
    /\ Slice(word, 0, 2) = Asc(<<"=", "?">>)
    /\ Slice(word, Len(word) - 2, Len(word)) = Asc(<<"?", "=">>)
    /\ LET body == Slice(word, 2, Len(word) - 2)
           q1 == Find(body, Ord["?"])
           rest == Slice(body, q1 + 1, Len(body))
           q2 == Find(rest, Ord["?"])
           text == Slice(rest, q2 + 1, Len(rest))
       IN  /\ q1 >= 1
           /\ q2 >= 1
           /\ \A i \in 1..q1 : is_token_char(body[i])
           /\ \A i \in 1..q2 : is_token_char(rest[i])
           /\ \A i \in 1..Len(text) : valid_char_in_ec(text[i], ctx)

-----------------------------------------------------------------------------
(* data/encoded_word.rs: EncodedWord                                       *)

EncodedWordEncoding == {"Base64", "QuotedPrintable"}

\* EncodedWordEncoding's acronym, the encoding field of the word.
acronym(encoding) == IF encoding = "Base64" THEN Asc(<<"B">>) ELSE Asc(<<"Q">>)

\* ascii_str!{ u t f _8 }
charset_utf8 == Asc(<<"u", "t", "f", "8">>)

\* What the writer puts before and after the data of each word.
ecw_start(charset, encoding) ==
    Asc(<<"=", "?">>) \o charset \o Asc(<<"?">>) \o acronym(encoding) \o Asc(<<"?">>)

ecw_end == Asc(<<"?", "=">>)

max_payload_len(charset, encoding) ==
    MaxEcwLen - Len(ecw_start(charset, encoding)) - Len(ecw_end)

\* encoding.encode of the bytes of some whole characters.
encode_payload(encoding, bytes) ==
    IF encoding = "Base64" THEN base64_encode(bytes)
    ELSE quoted_printable_encode(bytes)

\* encoding.encode(word, &mut writer) into a VecWriter: the text is split
\* between characters so that no word exceeds the size limit; an empty text
\* still gives one word.
RECURSIVE VecWriter(_, _, _)
VecWriter(charset, encoding, chunks) ==
    LET fits(k) == Len(encode_payload(encoding, Flatten(SubSeq(chunks, 1, k))))
                       <= max_payload_len(charset, encoding)
        n == Len(chunks)
        k == CHOOSE j \in 1..n : fits(j) /\ (j = n \/ ~fits(j + 1))
        one(cs) == ecw_start(charset, encoding)
                       \o encode_payload(encoding, Flatten(cs)) \o ecw_end
    IN  IF n = 0 \/ fits(n) THEN <<one(chunks)>>
        ELSE <<one(SubSeq(chunks, 1, k))>>
                 \o VecWriter(charset, encoding, SubSeq(chunks, k + 1, n))

\* EncodedWord::encode_word: every word of the writer, tagged with ctx.
encode_word(word, encoding, ctx) ==
    LET vec == VecWriter(charset_utf8, encoding, word)
    IN  [i \in 1..Len(vec) |-> [inner |-> vec[i], ctx |-> ctx]]

\* parse checking the word against the text grammar whatever the context.
parse_as_text(already_encoded, ctx) ==
    IF is_encoded_word(already_encoded, "Text")
    THEN [ok |-> TRUE, word |-> [inner |-> already_encoded, ctx |-> ctx]]
    ELSE [ok |-> FALSE, word |-> [inner |-> <<>>, ctx |-> ctx]]

\* EncodedWord::parse: the word if it is an encoded word of ctx, else an error.
parse(already_encoded, ctx) ==
    IF is_encoded_word(already_encoded, ctx)
    THEN [ok |-> TRUE, word |-> [inner |-> already_encoded, ctx |-> ctx]]
    ELSE [ok |-> FALSE, word |-> [inner |-> <<>>, ctx |-> ctx]]

\* EncodedWord::context
context(self) == self.ctx

first_question_mark == 1

\* The "?" after the charset, or -1 when there is none.
second_question_mark(inner) ==
    LET idx == Find(Slice(inner, first_question_mark + 1, Len(inner)), Ord["?"])
    IN  IF idx = -1 THEN -1 ELSE idx + first_question_mark + 1

\* The "?" after the encoding, or -1 when there is none.
third_question_mark(inner, second) ==
    LET idx == Find(Slice(inner, second + 1, Len(inner)), Ord["?"])
    IN  IF idx = -1 THEN -1 ELSE idx + second + 1

\* The data end taken one character too far to the left.
forth_question_mark_early(inner) == Len(inner) - 3

\* The data end taken one character too far to the right.
forth_question_mark_late(inner) == Len(inner) - 1

forth_question_mark(inner) == Len(inner) - 2

DecodeErr(kind) == [kind |-> kind, text |-> <<>>]

\* decode_fields choosing the decoder by the first character of the encoding.
decode_fields_prefix(charset, encoding, data) ==
    IF charset # Asc(<<"u", "t", "f", "8">>) THEN DecodeErr("UnsupportedCharset")
    ELSE IF encoding = <<>> \/ Head(encoding) \notin {Ord["B"], Ord["Q"]}
    THEN DecodeErr("UnknownEncoding")
    ELSE LET raw_decoded == IF Head(encoding) = Ord["B"] THEN base64_decode(data)
                            ELSE quoted_printable_decode(data)
         IN  IF ~raw_decoded.ok THEN DecodeErr("DecodeFailed")
             ELSE IF ~from_utf8_ok(raw_decoded.bytes) THEN DecodeErr("BrokenEncoding")
             ELSE [kind |-> "Ok", text |-> raw_decoded.bytes]

\* The last part of decode_word: the charset and encoding checks, the byte
\* decoding and String::from_utf8.
decode_fields(charset, encoding, data) ==
    IF charset # Asc(<<"u", "t", "f", "8">>) THEN DecodeErr("UnsupportedCharset")
    ELSE IF encoding # Asc(<<"B">>) /\ encoding # Asc(<<"Q">>)
    THEN DecodeErr("UnknownEncoding")
    ELSE LET raw_decoded == IF encoding = Asc(<<"B">>) THEN base64_decode(data)
                            ELSE quoted_printable_decode(data)
         IN  IF ~raw_decoded.ok THEN DecodeErr("DecodeFailed")
             ELSE IF ~from_utf8_ok(raw_decoded.bytes) THEN DecodeErr("BrokenEncoding")
             ELSE [kind |-> "Ok", text |-> raw_decoded.bytes]

\* EncodedWord::decode_word.  "Panic" is the abort of a slice whose range is
\* out of bounds or has start > end.
decode_word(self) ==
    LET inner == self.inner
        second == second_question_mark(inner)
        third == third_question_mark(inner, second)
        forth == forth_question_mark(inner)
    IN  IF Len(inner) < 8 THEN DecodeErr("Malformed")
        ELSE IF second = -1 THEN DecodeErr("Malformed")
        ELSE IF ~SliceOk(inner, second + 1, Len(inner)) THEN DecodeErr("Panic")
        ELSE IF third = -1 THEN DecodeErr("Malformed")
        ELSE IF \/ ~SliceOk(inner, first_question_mark + 1, second)
                \/ ~SliceOk(inner, second + 1, third)
                \/ ~SliceOk(inner, third + 1, forth)
        THEN DecodeErr("Panic")
        ELSE decode_fields(Slice(inner, first_question_mark + 1, second),
                           Slice(inner, second + 1, third),
                           Slice(inner, third + 1, forth))

-----------------------------------------------------------------------------
(* The codec's inputs                                                      *)

\* Longest text, in characters, among all the texts over TextChars.
MaxTextLen == 2

\* Length, in characters, of the texts long enough to need several words.
LongTextLen == 30

\* Longest ASCII string among all the strings over RawAlphabet.
MaxRawLen == 8

\* Characters of the texts, each as its UTF-8 bytes: t, a-umlaut, the euro
\* sign, space, "?", "_", "(", "=" and ",".
TextChars ==
    {<<116>>, <<195, 164>>, <<226, 130, 172>>, Asc(<<" ">>), Asc(<<"?">>),
     Asc(<<"_">>), Asc(<<"(">>), Asc(<<"=">>), Asc(<<",">>)}

Texts ==
    (UNION {[1..n -> TextChars] : n \in 0..MaxTextLen})
    \cup {[i \in 1..LongTextLen |-> c] : c \in {<<116>>, <<195, 164>>, Asc(<<"(">>)}}

RawAlphabet == {Ord["="], Ord["?"], Ord["a"]}

\* Fields of the well-shaped words offered to parse.
RawCharsets == {Asc(<<"u", "t", "f", "8">>), Asc(<<"u", "t", "f", "-", "8">>),
                Asc(<<"U", "T", "F", "8">>), Asc(<<"a">>), Asc(<<"u", "t", "f">>)}

RawEncodings == {Asc(<<"B">>), Asc(<<"Q">>), Asc(<<"R">>), Asc(<<"b">>),
                 Asc(<<"q">>), Asc(<<"Q", "n", "o", "t">>), Asc(<<"B", "Q">>)}

RawData ==
    {<<>>, Asc(<<"1", "2", "3">>), Asc(<<"t", "e", "s", "t">>),
     Asc(<<"a", "b", "c", "d">>),
     Asc(<<"d", "M", "O", "k", "c", "3", "Q", "=">>),
     Asc(<<"t", "=", "C", "3", "=", "A", "4", "s", "t">>),
     Asc(<<"a", "b", "=", "_", "u", "p", "s">>),
     Asc(<<"a", "b", "=", "F", "F", "u", "p", "s">>),
     Asc(<<"/", "/", "/", "/">>), Asc(<<"a", "_", "b">>),
     Asc(<<"(", "a", ")">>), Asc(<<"a", ",", "b">>), Asc(<<"a", " ", "b">>)}

\* Every ASCII string offered to parse: all short strings over RawAlphabet,
\* the well-shaped words over the fields above, and the word of test parse_err.
RawWords ==
    (UNION {[1..n -> RawAlphabet] : n \in 0..MaxRawLen})
    \cup {Asc(<<"=", "?">>) \o cs \o Asc(<<"?">>) \o e \o Asc(<<"?">>) \o d
              \o Asc(<<"?", "=">>) : cs \in RawCharsets, e \in RawEncodings, d \in RawData}
    \cup {Asc(<<"=", "?", "u", "t", "f", "8", "?", "?", "?", "Q", "1", "2", "3", "?", "=">>)}

NoInput == [op |-> "none", text |-> <<>>, encoding |-> "none", ctx |-> "none",
            raw |-> <<>>, ok |-> FALSE]

NotDecoded == [idx |-> 0, kind |-> "none", text |-> <<>>]

-----------------------------------------------------------------------------
(* The codec as a state machine: one constructor call, then decode_word    *)

InitCodec ==
    /\ cInput = NoInput
    /\ cWords = <<>>
    /\ cDecoded = NotDecoded

\* EncodedWord::encode_word(word, encoding, ctx), for every text, encoding
\* and context
EncodeWord ==
    /\ cInput.op = "none"
    /\ \E word \in Texts, encoding \in EncodedWordEncoding, ctx \in EncodedWordContext :
          /\ cInput' = [NoInput EXCEPT !.op = "encode_word", !.text = word,
                                       !.encoding = encoding, !.ctx = ctx, !.ok = TRUE]
          /\ cWords' = encode_word(word, encoding, ctx)
    /\ UNCHANGED <<cDecoded, resVars, tplVars>>

\* EncodedWord::parse(already_encoded, ctx), for every ASCII string and context
Parse ==
    /\ cInput.op = "none"
    /\ \E already_encoded \in RawWords, ctx \in EncodedWordContext :
          LET res == parse(already_encoded, ctx)
          IN  /\ cInput' = [NoInput EXCEPT !.op = "parse", !.raw = already_encoded,
                                           !.ctx = ctx, !.ok = res.ok]
              /\ cWords' = IF res.ok THEN <<res.word>> ELSE <<>>
    /\ UNCHANGED <<cDecoded, resVars, tplVars>>

\* decode_word on one of the words the constructor returned
DecodeWord ==
    /\ cDecoded.kind = "none"
    /\ \E i \in 1..Len(cWords) :
          cDecoded' = [idx |-> i] @@ decode_word(cWords[i])
    /\ UNCHANGED <<cInput, cWords, resVars, tplVars>>

NextCodec == EncodeWord \/ Parse \/ DecodeWord

-----------------------------------------------------------------------------
(* resource/mod.rs: Embedded and EmbeddedWithCId                           *)

\* Option::None of content_id; the identifiers are 1, 2, ...
None == 0

Resources == {"r1", "r2"}

Disposition == {"Inline", "Attachment"}

\* Embedded::new with an identifier already set.
new_with_default_id(resource, disposition) ==
    [content_id |-> 1, resource |-> resource, disposition |-> disposition]

\* Embedded::new (and inline, attachment): no identifier yet.
new(resource, disposition) ==
    [content_id |-> None, resource |-> resource, disposition |-> disposition]

\* Embedded::with_content_id
with_content_id(resource, disposition, content_id) ==
    [content_id |-> content_id, resource |-> resource, disposition |-> disposition]

\* assure_content_id asking the generator on every call.
needs_content_id_always(self) == TRUE

\* The test of assure_content_id: the generator is asked only when there is
\* no identifier.
needs_content_id(self) == self.content_id = None

\* assure_content_id leaving self as it is.
assure_content_id_noop(self, generated) == self

\* Embedded::assure_content_id: self afterwards, given the identifier the
\* generator returns when asked.
assure_content_id(self, generated) ==
    IF needs_content_id(self) THEN [self EXCEPT !.content_id = generated] ELSE self

\* Embedded::content_id().unwrap(): panic is the abort of unwrap on None.
unwrap_content_id(self) ==
    [panic |-> self.content_id = None, id |-> self.content_id]

\* EmbeddedWithCId::try_from wrapping whatever it is given.
try_from_unchecked(emb) == [ok |-> TRUE, with |-> [inner |-> emb], emb |-> emb]

\* EmbeddedWithCId::try_from: Ok(EmbeddedWithCId) or Err(emb).
try_from(emb) ==
    IF emb.content_id # None
    THEN [ok |-> TRUE, with |-> [inner |-> emb], emb |-> emb]
    ELSE [ok |-> FALSE, with |-> [inner |-> emb], emb |-> emb]

\* ctx.generate_content_id(): the identifier returned and the generator
\* afterwards; it never returns a value twice.
generate_content_id(ctx) == [id |-> ctx, ctx |-> ctx + 1]

\* Most values, Embedded and EmbeddedWithCId together, created in one run; the
\* generator hands out as many identifiers at most.
MaxValues == 2

\* There is room for one more value.
Room == Len(embedded) + Len(withCId) < MaxValues

\* The generator can still be asked.
CanGenerate == nextCid <= MaxValues

\* A call as recorded: the Embedded it was made on or created (target), what
\* it returned (ok, the unwrapped identifier or its panic, the Embedded handed
\* back or wrapped) and whether it asked the generator.
Call(op, target, payload, ok, unwrapped, generated) ==
    [op |-> op, target |-> target, payload |-> payload, ok |-> ok,
     panic |-> unwrapped.panic, ret |-> unwrapped.id, generated |-> generated]

NoId == [panic |-> FALSE, id |-> None]

NoEmbedded == new("r1", "Inline")

NoCall == Call("none", 0, NoEmbedded, TRUE, NoId, FALSE)

InitRes ==
    /\ embedded = <<>>
    /\ live = {}
    /\ origin = <<>>
    /\ withCId = <<>>
    /\ nextCid = 1
    /\ lastCall = NoCall


-----------------------------------------------------------------------------
(* Properties of the codec                                                 *)

\* The word just decoded.
DecodedWord == cWords[cDecoded.idx]

\* The fields of a word read off the grammar: the body between "=?" and "?="
\* cut at its first two "?".
FieldsOf(word) ==
    LET body == Slice(word, 2, Len(word) - 2)
        q1 == Find(body, Ord["?"])
        rest == Slice(body, q1 + 1, Len(body))
        q2 == Find(rest, Ord["?"])
    IN  [charset |-> Slice(body, 0, q1), encoding |-> Slice(rest, 0, q2),
         data |-> Slice(rest, q2 + 1, Len(rest))]

\* The four "?" delimiters are there: after the "=" of the prefix, after the
\* charset, after the encoding, and before the final "=".
HasDelimiters(word) ==
    /\ Len(word) >= 2
    /\ word[2] = Ord["?"]
    /\ word[Len(word) - 1] = Ord["?"]
    /\ \E p2, p3 \in 3..(Len(word) - 2) :
          p2 < p3 /\ word[p2] = Ord["?"] /\ word[p3] = Ord["?"]

Malformed(word) == Len(word) < 8 \/ ~HasDelimiters(word)

\* C1: a text that encode_word put into one word comes back from decode_word
\* of that word, exactly, for both encodings and every context.
C1_RoundTrip ==
    (cInput.op = "encode_word" /\ Len(cWords) = 1 /\ cDecoded.idx = 1)
        => (cDecoded.kind = "Ok" /\ cDecoded.text = Flatten(cInput.text))

\* A non-ASCII text with a "?" in it went through Base64 in a phrase and back.
C1_Witness ==
    /\ cInput.op = "encode_word"
    /\ cInput.encoding = "Base64"
    /\ cInput.ctx = "Phrase"
    /\ cInput.text = <<(<<195, 164>>), Asc(<<"?">>)>>
    /\ Len(cWords) = 1
    /\ cDecoded.kind = "Ok"
    /\ cDecoded.text = <<195, 164, 63>>

C8_CharsetThenEncoding ==
    (cInput.op = "parse" /\ cDecoded.idx > 0) =>
        LET f == FieldsOf(DecodedWord.inner)
        IN  /\ f.charset # Asc(<<"u", "t", "f", "8">>)
                => cDecoded.kind = "UnsupportedCharset"
            /\ (f.charset = Asc(<<"u", "t", "f", "8">>)
                    /\ f.encoding \notin {Asc(<<"B">>), Asc(<<"Q">>)})
                => cDecoded.kind = "UnknownEncoding"

\* "=?utf8?Qnot?abcd?=" parsed and failed to decode with UnknownEncoding.
C8_Witness ==
    /\ cInput.op = "parse"
    /\ cInput.raw = Asc(<<"=", "?", "u", "t", "f", "8", "?", "Q", "n", "o", "t", "?",
                          "a", "b", "c", "d", "?", "=">>)
    /\ cDecoded.kind = "UnknownEncoding"

-----------------------------------------------------------------------------
(* The operations on Embedded and EmbeddedWithCId                          *)

RemoveAt(seq, k) == SubSeq(seq, 1, k - 1) \o SubSeq(seq, k + 1, Len(seq))

\* Embedded::new / inline / attachment
NewEmbedded ==
    /\ Room
    /\ \E resource \in Resources, disposition \in Disposition :
          LET emb == new(resource, disposition)
              n == Len(embedded) + 1
          IN  /\ embedded' = Append(embedded, emb)
              /\ live' = live \cup {n}
              /\ origin' = Append(origin, n)
              /\ lastCall' = Call("new", n, NoEmbedded, TRUE, NoId, FALSE)
    /\ UNCHANGED <<withCId, nextCid, codecVars, tplVars>>

\* Embedded::clone (derive Clone): every field is copied, the identifier too.
CloneEmbedded ==
    /\ Room
    /\ \E i \in live :
          LET n == Len(embedded) + 1
          IN  /\ embedded' = Append(embedded, embedded[i])
              /\ live' = live \cup {n}
              /\ origin' = Append(origin, IF embedded[i].content_id # None
                                          THEN origin[i] ELSE n)
              /\ lastCall' = Call("clone", n, NoEmbedded, TRUE, NoId, FALSE)
    /\ UNCHANGED <<withCId, nextCid, codecVars, tplVars>>

\* The body of assure_content_id on the i-th Embedded, recorded as call op;
\* with copy, the EmbeddedWithCId { inner: self.clone() } is returned and kept.
Assure(op, i, copy) ==
    LET self == embedded[i]
        asked == needs_content_id(self)
        gen == generate_content_id(nextCid)
        after == assure_content_id(self, gen.id)
    IN  /\ asked => CanGenerate
        /\ copy => Room
        /\ embedded' = [embedded EXCEPT ![i] = after]
        /\ nextCid' = IF asked THEN gen.ctx ELSE nextCid
        /\ withCId' = IF copy THEN Append(withCId, [inner |-> after]) ELSE withCId
        /\ lastCall' = Call(op, i, NoEmbedded, TRUE, unwrap_content_id(after), asked)
        /\ UNCHANGED <<live, origin, codecVars, tplVars>>

\* Embedded::assure_content_id
AssureContentId == \E i \in live : Assure("assure_content_id", i, FALSE)

\* Embedded::assure_content_id_and_copy
AssureContentIdAndCopy == \E i \in live : Assure("assure_content_id_and_copy", i, TRUE)

\* The caller's write through Embedded::resource_mut
SetResource(op, i, resource) ==
    /\ embedded' = [embedded EXCEPT ![i].resource = resource]
    /\ lastCall' = Call(op, i, NoEmbedded, TRUE, NoId, FALSE)
    /\ UNCHANGED <<live, origin, withCId, nextCid, codecVars, tplVars>>

\* Embedded::resource_mut
ResourceMut == \E i \in live, resource \in Resources : SetResource("resource_mut", i, resource)

\* InspectEmbeddedResources::inspect_resources_mut of an Embedded: the visitor
\* is called on self and may call any &mut method; the call recorded is the
\* visitor's.
InspectResourcesMut ==
    \E i \in live :
        \/ Assure("assure_content_id", i, FALSE)
        \/ Assure("assure_content_id_and_copy", i, TRUE)
        \/ \E resource \in Resources : SetResource("resource_mut", i, resource)

\* EmbeddedWithCId::try_from(emb): emb is moved in; on Err it comes back.
TryFrom ==
    \E i \in live :
        LET res == try_from(embedded[i])
        IN  /\ res.ok => Room
            /\ withCId' = IF res.ok THEN Append(withCId, res.with) ELSE withCId
            /\ live' = IF res.ok THEN live \ {i} ELSE live
            /\ lastCall' = Call("try_from", i,
                                IF res.ok THEN res.with.inner ELSE res.emb,
                                res.ok, NoId, FALSE)
            /\ UNCHANGED <<embedded, origin, nextCid, codecVars, tplVars>>

\* EmbeddedWithCId::new / inline / attachment
NewWithCId ==
    /\ Room
    /\ CanGenerate
    /\ \E resource \in Resources, disposition \in Disposition :
          LET gen == generate_content_id(nextCid)
              emb == with_content_id(resource, disposition, gen.id)
          IN  /\ withCId' = Append(withCId, [inner |-> emb])
              /\ nextCid' = gen.ctx
              /\ lastCall' = Call("with_cid_new", 0, NoEmbedded, TRUE, NoId, TRUE)
    /\ UNCHANGED <<embedded, live, origin, codecVars, tplVars>>

\* EmbeddedWithCId::clone (derive Clone)
CloneWithCId ==
    /\ Room
    /\ \E k \in 1..Len(withCId) :
          /\ withCId' = Append(withCId, withCId[k])
          /\ lastCall' = Call("with_cid_clone", 0, NoEmbedded, TRUE, NoId, FALSE)
    /\ UNCHANGED <<embedded, live, origin, nextCid, codecVars, tplVars>>

\* EmbeddedWithCId::content_id
ContentIdOfWithCId ==
    /\ \E k \in 1..Len(withCId) :
          lastCall' = Call("content_id", 0, NoEmbedded, TRUE,
                           unwrap_content_id(withCId[k].inner), FALSE)
    /\ UNCHANGED <<embedded, live, origin, withCId, nextCid, codecVars, tplVars>>

\* Into<(ContentId, Resource)> for EmbeddedWithCId: the value is consumed.
IntoCIdResource ==
    /\ \E k \in 1..Len(withCId) :
          /\ withCId' = RemoveAt(withCId, k)
          /\ lastCall' = Call("into_cid_resource", 0, NoEmbedded, TRUE,
                              unwrap_content_id(withCId[k].inner), FALSE)
    /\ UNCHANGED <<embedded, live, origin, nextCid, codecVars, tplVars>>

NextRes ==
    \/ NewEmbedded
    \/ CloneEmbedded
    \/ AssureContentId
    \/ AssureContentIdAndCopy
    \/ ResourceMut
    \/ InspectResourcesMut
    \/ TryFrom
    \/ NewWithCId
    \/ CloneWithCId
    \/ ContentIdOfWithCId
    \/ IntoCIdResource

-----------------------------------------------------------------------------
(* render_template_engine/mod.rs: TemplateSpec, SubTemplateSpec and the    *)
(* registry of a RenderTemplateEngine                                      *)

\* Most sub-templates of a TemplateSpec.
MaxSubTemplates == 2

\* Most embeddings of a TemplateSpec, all its sub-templates taken together.
MaxEmbeddings == 3

EmptyMap == [n \in {} |-> 0]

SubTemplateSpec(media_type, path, embeddings, attachments) ==
    [media_type |-> media_type, path |-> path, embeddings |-> embeddings,
     attachments |-> attachments]

\* The sub-templates the specs are made of: a plain text without resources,
\* an html with two embeddings and the same attachment twice, an html with
\* one embedding and two attachments.
SubTemplateSpecs ==
    {SubTemplateSpec("text/plain", "mail.txt", EmptyMap, <<>>),
     SubTemplateSpec("text/html", "mail.html",
                     [n \in {"logo", "pic"} |-> IF n = "logo" THEN "logo.png" ELSE "pic.jpg"],
                     <<"terms.pdf", "terms.pdf">>),
     SubTemplateSpec("text/html", "small.html", [n \in {"logo"} |-> "logo.png"],
                     <<"a.pdf", "b.pdf">>)}

\* The embeddings of the sub-templates of a list, counted.
RECURSIVE embedding_count(_)
embedding_count(templates) ==
    IF templates = <<>> THEN 0
    ELSE Cardinality(DOMAIN Head(templates).embeddings) + embedding_count(Tail(templates))

\* TemplateSpec::new: a non-empty list (Vec1) of sub-templates, with at most
\* MaxEmbeddings embeddings in all.
TemplateSpecs ==
    {templates \in UNION {[1..n -> SubTemplateSpecs] : n \in 1..MaxSubTemplates} :
        embedding_count(templates) <= MaxEmbeddings}

\* The registries: one template registered under "welcome".
Registries == {[id \in {"welcome"} |-> spec] : spec \in TemplateSpecs}

TemplateIds == {"welcome", "missing"}

Data == {"d1"}

\* The concurrent templates() calls on the one engine.
Calls == {"c1", "c2"}

\* RenderTemplateEngine::lookup_spec
lookup_spec(registry, template_id) ==
    IF template_id \in DOMAIN registry
    THEN [ok |-> TRUE, spec |-> registry[template_id]]
    ELSE [ok |-> FALSE, spec |-> <<>>]

\* Resource::from_spec
from_spec(resource_spec) == [source |-> resource_spec]

\* EmbeddingWithCId::new
EmbeddingWithCId(resource, cid) == [resource |-> resource, content_id |-> cid]

\* ContentId::as_str: the string form of an identifier.
as_str(cid) == <<"cid", cid>>

\* The view without the embedding named "logo".
cid_mapped_serialize_partial(cids) ==
    [n \in DOMAIN cids \ {"logo"} |-> as_str(cids[n].content_id)]

\* cid_mapped_serialize: the name -> cid string view of the embeddings.
cid_mapped_serialize(cids) == [n \in DOMAIN cids |-> as_str(cids[n].content_id)]

\* DataWrapper { data, cids }
DataWrapper(data, cids) == [data |-> data, cids |-> cid_mapped_serialize(cids)]

\* What the render engine returns on success: the text of that template for
\* that data view.
render(path, data) == [path |-> path, view |-> data]

\* Resource::from_buffer(FileBuffer::new(media_type, rendered))
from_buffer(media_type, rendered) == [media_type |-> media_type, content |-> rendered]

TemplateBody(body_resource, embeddings) ==
    [body_resource |-> body_resource, embeddings |-> embeddings]

\* The attachments of one sub-template, a spec listed twice taken once.
new_attachments_distinct(template) ==
    LET first == {j \in 1..Len(template.attachments) :
                     \A k \in 1..(j - 1) : template.attachments[k] # template.attachments[j]}
    IN  [j \in 1..Cardinality(first) |->
            [resource |-> from_spec(template.attachments[
                CHOOSE k \in first : Cardinality({m \in first : m < k}) = j - 1])]]

\* The attachments of one sub-template, each instantiated from its spec.
new_attachments(template) ==
    [j \in 1..Len(template.attachments) |->
        [resource |-> from_spec(template.attachments[j])]]

\* The result of templates(): Ok((templates, attachments)) or Err(kind).
Ok(templates, attachments) ==
    [kind |-> "Ok", templates |-> templates, attachments |-> attachments]

Err(kind) == [kind |-> kind, templates |-> <<>>, attachments |-> <<>>]

NoResult == [kind |-> "none", templates |-> <<>>, attachments |-> <<>>]

NoFailure == [k |-> 0, kind |-> "none"]

\* One call made by templates() to a collaborator, as the collaborator sees
\* it: the lookup in the registry (i = 0), a content-id request for embedding
\* key of sub-template i with the identifier handed out, or a render call for
\* sub-template i with its path and the cids of the data view.
Event(op, i, key, ok, id, path, cids) ==
    [op |-> op, i |-> i, key |-> key, ok |-> ok, id |-> id, path |-> path, cids |-> cids]

\* ctx.new_content_id() when it succeeds: the identifier handed out and the
\* generator after it.
new_content_id_again(ctx) == [id |-> ctx, ctx |-> ctx]

new_content_id(ctx) == [id |-> ctx, ctx |-> ctx + 1]

\* A call not yet made.  i is the sub-template being mapped, pending the
\* embeddings of it still to be given an identifier; failed notes the
\* sub-template and kind of the step that failed, log the calls made to the
\* registry, the generator and the render engine, in the order made.
IdleCall ==
    [pc |-> "idle", template_id |-> "none", data |-> "none", i |-> 0,
     pending |-> {}, embeddings |-> EmptyMap, templates |-> <<>>,
     attachments |-> <<>>, result |-> NoResult, failed |-> NoFailure, log |-> <<>>]

\* A call that returned: its locals are dropped.
Returned(call, result) ==
    [call EXCEPT !.pc = "done", !.i = 0, !.pending = {}, !.embeddings = EmptyMap,
                 !.templates = <<>>, !.attachments = <<>>, !.result = result]

\* The failed sub-template left out and the mapping carried on.
skip_failed(call, kind) ==
    LET spec == id2spec[call.template_id]
    IN  IF call.i = Len(spec) THEN Returned(call, Ok(call.templates, call.attachments))
        ELSE [call EXCEPT !.i = call.i + 1,
                          !.pending = DOMAIN spec[call.i + 1].embeddings,
                          !.embeddings = EmptyMap]

\* A failed step: the error leaves the closure, try_mapped_ref and
\* templates() through "?".
on_error(call, kind) == Returned(call, Err(kind))

\* The render call not waiting for the embeddings.
embeddings_collected_or_not(call) == TRUE

\* The embeddings iterator has run to its end (collect) before the render
\* call is reached.
embeddings_collected(call) == call.pending = {}

\* The new body put before the ones collected so far.
collect_front(templates, body) == <<body>> \o templates

\* try_mapped_ref collects the closure's results in the order of the list.
collect(templates, body) == Append(templates, body)

InitTpl ==
    /\ id2spec \in Registries
    /\ tcall = [c \in Calls |-> IdleCall]

-----------------------------------------------------------------------------
(* RenderTemplateEngine::templates, step by step: the lookup, then for each *)
(* sub-template one new_content_id per embedding and one render            *)

\* templates(ctx, template_id, data) is called: lookup_spec, then the first
\* sub-template is taken up.
TemplatesCall(c) ==
    /\ tcall[c].pc = "idle"
    /\ \E template_id \in TemplateIds, data \in Data :
          LET found == lookup_spec(id2spec, template_id)
              call == [tcall[c] EXCEPT
                          !.template_id = template_id, !.data = data,
                          !.log = <<Event("lookup_spec", 0, template_id, found.ok,
                                          0, "", EmptyMap)>>]
          IN  tcall' = [tcall EXCEPT ![c] =
                  IF ~found.ok THEN Returned(call, Err("UnknownTemplateId"))
                  ELSE [call EXCEPT !.pc = "map", !.i = 1,
                                    !.pending = DOMAIN found.spec[1].embeddings]]
    /\ UNCHANGED <<id2spec, nextCid, embedded, live, origin, withCId, lastCall, codecVars>>

\* One embedding of the current sub-template, in the map's iteration order
\* (any): from_spec, then ctx.new_content_id(), which may fail.
NewContentId(c) ==
    LET call == tcall[c]
        template == id2spec[call.template_id][call.i]
        generated == new_content_id(nextCid)
    IN  /\ call.pc = "map"
        /\ \E key \in call.pending :
              \/ /\ tcall' = [tcall EXCEPT ![c] =
                        [call EXCEPT !.pending = call.pending \ {key},
                                     !.embeddings = (key :> EmbeddingWithCId(
                                                        from_spec(template.embeddings[key]),
                                                        generated.id)) @@ call.embeddings,
                                     !.log = Append(call.log,
                                                Event("new_content_id", call.i, key, TRUE,
                                                      generated.id, "", EmptyMap))]]
                 /\ nextCid' = generated.ctx
              \/ /\ tcall' = [tcall EXCEPT ![c] =
                        on_error([call EXCEPT !.failed = [k |-> call.i,
                                                          kind |-> "CIdGenFailed"],
                                              !.log = Append(call.log,
                                                Event("new_content_id", call.i, key, FALSE,
                                                      0, "", EmptyMap))],
                                 "CIdGenFailed")]
                 /\ UNCHANGED nextCid
        /\ UNCHANGED <<id2spec, embedded, live, origin, withCId, lastCall, codecVars>>

\* All embeddings of the current sub-template have their identifier: the
\* render engine is called, which may fail; on success the body is built, the
\* attachments are appended and the next sub-template is taken up, or, after
\* the last one, templates() returns.
Render(c) ==
    LET call == tcall[c]
        spec == id2spec[call.template_id]
        template == spec[call.i]
        view == DataWrapper(call.data, call.embeddings)
        rendered == render(template.path, view)
        called(ok) == Append(call.log, Event("render", call.i, "", ok, 0,
                                             template.path, view.cids))
        body == TemplateBody(from_buffer(template.media_type, rendered), call.embeddings)
        templates == collect(call.templates, body)
        attachments == call.attachments \o new_attachments(template)
    IN  /\ call.pc = "map"
        /\ embeddings_collected(call)
        /\ \/ tcall' = [tcall EXCEPT ![c] =
                  IF call.i = Len(spec)
                  THEN Returned([call EXCEPT !.log = called(TRUE)],
                                Ok(templates, attachments))
                  ELSE [call EXCEPT !.i = call.i + 1,
                                    !.pending = DOMAIN spec[call.i + 1].embeddings,
                                    !.embeddings = EmptyMap,
                                    !.templates = templates,
                                    !.attachments = attachments,
                                    !.log = called(TRUE)]]
           \/ tcall' = [tcall EXCEPT ![c] =
                  on_error([call EXCEPT !.failed = [k |-> call.i, kind |-> "RenderError"],
                                        !.log = called(FALSE)],
                           "RenderError")]
        /\ UNCHANGED <<id2spec, nextCid, embedded, live, origin, withCId, lastCall, codecVars>>

NextTpl ==
    \/ \E c \in Calls : TemplatesCall(c)
    \/ \E c \in Calls : NewContentId(c)
    \/ \E c \in Calls : Render(c)

-----------------------------------------------------------------------------
(* Specifications                                                          *)

\* Nothing constructed, nothing called; the engine holds some registry.
Init == InitCodec /\ InitRes /\ InitTpl

\* The same with one given registry, for the runs that do not render.
InitNoEngine ==
    /\ InitCodec
    /\ InitRes
    /\ id2spec = [id \in {"welcome"} |-> <<SubTemplateSpec("text/plain", "mail.txt",
                                                          EmptyMap, <<>>)>>]
    /\ tcall = [c \in Calls |-> IdleCall]

SpecCodec == InitNoEngine /\ [][NextCodec]_vars

SpecRes == InitNoEngine /\ [][NextRes]_vars

SpecTpl == Init /\ [][NextTpl]_vars

-----------------------------------------------------------------------------
(* Properties of Embedded and EmbeddedWithCId                              *)

AssureOps == {"assure_content_id", "assure_content_id_and_copy"}

HasId(emb) == emb.content_id # None

\* C4: an identifier, once there, never changes; assure_content_id (and
\* assure_content_id_and_copy) returns the identifier the Embedded then
\* carries, and asks the generator only when the Embedded had none.
C4_ContentIdStable ==
    [][/\ \A i \in 1..Len(embedded) :
             HasId(embedded[i]) => embedded'[i].content_id = embedded[i].content_id
       /\ lastCall'.op \in AssureOps =>
             /\ ~lastCall'.panic
             /\ lastCall'.ret = embedded'[lastCall'.target].content_id
             /\ HasId(embedded[lastCall'.target]) =>
                   /\ ~lastCall'.generated
                   /\ nextCid' = nextCid
                   /\ lastCall'.ret = embedded[lastCall'.target].content_id]_vars

\* assure_content_id was called on an Embedded that had its identifier, a
\* clone of the first Embedded, and returned that identifier without asking
\* the generator.
C4_Witness ==
    /\ lastCall.op = "assure_content_id"
    /\ lastCall.target = 2
    /\ ~lastCall.generated
    /\ lastCall.ret = 1
    /\ embedded[1].content_id = 1
    /\ nextCid = 2

\* C5 as claimed: any two distinct Embedded values that carry an identifier
\* carry different ones.
C5_AllDistinct ==
    \A i, j \in 1..Len(embedded) :
        (i # j /\ HasId(embedded[i]) /\ HasId(embedded[j]))
            => embedded[i].content_id # embedded[j].content_id

\* C5 as amended: two distinct Embedded values carry the same identifier only
\* when both are, through clone, copies of the one Embedded it was generated
\* for; identifiers generated for different Embedded values differ.
C5_DistinctUnlessCloned ==
    \A i, j \in 1..Len(embedded) :
        (i # j /\ HasId(embedded[i]) /\ HasId(embedded[j])
             /\ embedded[i].content_id = embedded[j].content_id)
            => origin[i] = origin[j]

\* Two Embedded values, neither a clone of the other, both received an
\* identifier from the generator.
C5_Witness ==
    /\ Len(embedded) = 2
    /\ origin = <<1, 2>>
    /\ HasId(embedded[1])
    /\ HasId(embedded[2])
    /\ embedded[1].content_id # embedded[2].content_id

\* C9: try_from succeeds exactly when the Embedded carries an identifier; the
\* value wrapped (Ok) or handed back (Err) is the Embedded as it was; the
\* generator is not asked.
C9_TryFrom ==
    [][lastCall'.op = "try_from" =>
          LET emb == embedded[lastCall'.target]
          IN  /\ lastCall'.ok <=> HasId(emb)
              /\ lastCall'.payload = emb
              /\ ~lastCall'.generated
              /\ nextCid' = nextCid
              /\ lastCall'.ok => withCId' = Append(withCId, [inner |-> emb])
              /\ ~lastCall'.ok =>
                    /\ withCId' = withCId
                    /\ embedded' = embedded
                    /\ lastCall'.target \in live']_vars

\* try_from failed on an attachment of r2 without identifier and handed it back.
C9_Witness ==
    /\ lastCall.op = "try_from"
    /\ ~lastCall.ok
    /\ lastCall.payload = new("r2", "Attachment")
    /\ lastCall.target \in live

\* C10: every EmbeddedWithCId carries an identifier, so content_id() and the
\* conversion into (ContentId, Resource) never hit the unwrap on None; the copy
\* assure_content_id_and_copy returns is the original as it is after the call.
C10_AlwaysHasId ==
    /\ \A k \in 1..Len(withCId) : HasId(withCId[k].inner)
    /\ lastCall.op \in {"content_id", "into_cid_resource"} =>
          (~lastCall.panic /\ lastCall.ret # None)
    /\ lastCall.op = "assure_content_id_and_copy" =>
          /\ withCId[Len(withCId)].inner = embedded[lastCall.target]
          /\ HasId(embedded[lastCall.target])

\* assure_content_id_and_copy generated an identifier and returned a copy.
C10_Witness ==
    /\ lastCall.op = "assure_content_id_and_copy"
    /\ lastCall.generated
    /\ Len(withCId) = 1
    /\ withCId[1].inner.content_id = embedded[lastCall.target].content_id
    /\ withCId[1].inner.content_id = lastCall.ret

-----------------------------------------------------------------------------
(* Properties of RenderTemplateEngine::templates                           *)

\* The sub-templates of the spec a call was made for.
SpecOf(c) == id2spec[tcall[c].template_id]

\* C2: when the identifier generation or the rendering of some sub-template
\* failed, the call has returned, with exactly that one error and with no
\* TemplateBody and no Attachment, whatever the earlier sub-templates had
\* already produced.
C2_AllOrNothing ==
    \A c \in Calls :
        tcall[c].failed.k > 0 =>
            /\ tcall[c].pc = "done"
            /\ tcall[c].result.kind = tcall[c].failed.kind
            /\ tcall[c].result.kind \in {"CIdGenFailed", "RenderError"}
            /\ tcall[c].result.templates = <<>>
            /\ tcall[c].result.attachments = <<>>

\* C2 happens: the rendering of the second sub-template failed after the
\* first one, which has embeddings and attachments, had been processed.
C2_Witness ==
    \E c \in Calls :
        /\ tcall[c].failed = [k |-> 2, kind |-> "RenderError"]
        /\ tcall[c].pc = "done"
        /\ DOMAIN SpecOf(c)[1].embeddings # {}
        /\ SpecOf(c)[1].attachments # <<>>

\* C3: a successful call returns a non-empty list with exactly one
\* TemplateBody per sub-template of the spec, the i-th one built from the
\* i-th sub-template: its media type and path, and one embedding with an
\* identifier for each of its embedding names.
C3_OneBodyPerSubTemplate ==
    \A c \in Calls :
        tcall[c].result.kind = "Ok" =>
            LET templates == tcall[c].result.templates
            IN  /\ Len(templates) = Len(SpecOf(c))
                /\ Len(templates) >= 1
                /\ \A i \in 1..Len(templates) :
                      /\ templates[i].body_resource.media_type = SpecOf(c)[i].media_type
                      /\ templates[i].body_resource.content.path = SpecOf(c)[i].path
                      /\ DOMAIN templates[i].embeddings = DOMAIN SpecOf(c)[i].embeddings
                      /\ \A n \in DOMAIN templates[i].embeddings :
                            /\ templates[i].embeddings[n].resource
                                  = from_spec(SpecOf(c)[i].embeddings[n])
                            /\ templates[i].embeddings[n].content_id # None

\* C3 happens: a successful call for a spec of two sub-templates of different
\* media types, the second with two embeddings.
C3_Witness ==
    \E c \in Calls :
        /\ tcall[c].result.kind = "Ok"
        /\ Len(SpecOf(c)) = 2
        /\ SpecOf(c)[1].media_type # SpecOf(c)[2].media_type
        /\ Cardinality(DOMAIN SpecOf(c)[2].embeddings) = 2
        /\ Len(tcall[c].result.templates) = 2

\* What a caller can tell of a result: the error kind, or the bodies in
\* their order, each with its media type, path and embedding names, and the
\* attachments in their order.
OutcomeOf(result) ==
    [kind |-> result.kind,
     bodies |-> [i \in 1..Len(result.templates) |->
                    [media_type |-> result.templates[i].body_resource.media_type,
                     path |-> result.templates[i].body_resource.content.path,
                     names |-> DOMAIN result.templates[i].embeddings]],
     attachments |-> [j \in 1..Len(result.attachments) |->
                        result.attachments[j].resource.source]]

\* templates() run alone over the sub-templates from the i-th on, the
\* collaborators failing at the step noted in failed (or never): the outcome
\* after the bodies and attachments collected so far.
RECURSIVE map_alone(_, _, _, _, _)
map_alone(spec, i, failed, bodies, attachments) ==
    IF i > Len(spec) THEN [kind |-> "Ok", bodies |-> bodies, attachments |-> attachments]
    ELSE IF failed.k = i THEN [kind |-> failed.kind, bodies |-> <<>>, attachments |-> <<>>]
    ELSE map_alone(spec, i + 1, failed,
                   Append(bodies, [media_type |-> spec[i].media_type,
                                   path |-> spec[i].path,
                                   names |-> DOMAIN spec[i].embeddings]),
                   attachments \o spec[i].attachments)

\* The outcome of templates(template_id) run alone on the registry.
templates_alone(registry, template_id, failed) ==
    IF template_id \notin DOMAIN registry
    THEN [kind |-> "UnknownTemplateId", bodies |-> <<>>, attachments |-> <<>>]
    ELSE map_alone(registry[template_id], 1, failed, <<>>, <<>>)

\* The content ids in a result.
CidsOf(result) ==
    UNION {{result.templates[i].embeddings[n].content_id :
                n \in DOMAIN result.templates[i].embeddings} :
           i \in 1..Len(result.templates)}

\* Each returned call has the outcome it would have alone, and no content id
\* is in the results of two calls.
IndependentCalls ==
    /\ \A c \in Calls :
          tcall[c].pc = "done" =>
              OutcomeOf(tcall[c].result)
                  = templates_alone(id2spec, tcall[c].template_id, tcall[c].failed)
    /\ \A c, d \in Calls :
          c # d => CidsOf(tcall[c].result) \cap CidsOf(tcall[d].result) = {}

\* C11: templates() never changes the registry or a TemplateSpec in it, and
\* under every interleaving of the concurrent calls each call returns the
\* outcome (error kind, or body order, embedding names and attachment
\* order) it would return alone, and no content id appears in the results
\* of two different calls.
C11_ConcurrentCallsIndependent ==
    /\ []IndependentCalls
    /\ [][id2spec' = id2spec]_vars

\* C11 happens: two calls have returned successfully whose content-id
\* requests were interleaved (neither call's ids all come before the
\* other's).
C11_Witness ==
    \E c, d \in Calls :
        /\ c # d
        /\ tcall[c].result.kind = "Ok"
        /\ tcall[d].result.kind = "Ok"
        /\ \E a \in CidsOf(tcall[c].result), b \in CidsOf(tcall[d].result) : a < b
        /\ \E a \in CidsOf(tcall[c].result), b \in CidsOf(tcall[d].result) : a > b

\* The positions in a log of the calls of one kind for sub-template i.
EventsOf(log, op, i) == {j \in 1..Len(log) : log[j].op = op /\ log[j].i = i}

\* The positions of the content-id requests for embedding key of
\* sub-template i.
RequestsOf(log, i, key) == {j \in EventsOf(log, "new_content_id", i) : log[j].key = key}

\* The sub-templates a call is through with: all of them once it returned
\* successfully, the ones before the current one while it is mapping.
Processed(call) ==
    IF call.result.kind = "Ok" THEN 1..Len(id2spec[call.template_id])
    ELSE IF call.pc = "map" THEN 1..(call.i - 1)
    ELSE {}

\* C12: for every sub-template a call is through with, the render engine was
\* invoked exactly once, with the sub-template's path and a cids mapping
\* whose keys are exactly the sub-template's embedding names, each mapped
\* to the string form of the one content id requested for that embedding in
\* this call; no sub-template is ever rendered twice and no embedding is
\* ever requested an id twice; and the TemplateBody returned for the
\* sub-template carries those same ids.
C12_RenderOncePerSubTemplate ==
    \A c \in Calls :
        LET call == tcall[c]
            log == call.log
        IN  call.template_id \in DOMAIN id2spec =>
                \A i \in 1..Len(SpecOf(c)) :
                    LET renders == EventsOf(log, "render", i)
                        names == DOMAIN SpecOf(c)[i].embeddings
                    IN  /\ Cardinality(renders) <= 1
                        /\ \A n \in names : Cardinality(RequestsOf(log, i, n)) <= 1
                        /\ \A j \in EventsOf(log, "new_content_id", i) : log[j].key \in names
                        /\ i \in Processed(call) => Cardinality(renders) = 1
                        /\ \A r \in renders :
                              /\ log[r].path = SpecOf(c)[i].path
                              /\ DOMAIN log[r].cids = names
                              /\ \A n \in names :
                                    /\ Cardinality(RequestsOf(log, i, n)) = 1
                                    /\ \A q \in RequestsOf(log, i, n) :
                                          /\ log[q].ok
                                          /\ log[r].cids[n] = as_str(log[q].id)
                                          /\ call.result.kind = "Ok" =>
                                                call.result.templates[i].embeddings[n].content_id
                                                    = log[q].id

\* C12 happens: a successful call for two sub-templates that both embed
\* "logo"; each was rendered with the id requested for its own "logo".
C12_Witness ==
    \E c \in Calls :
        /\ tcall[c].result.kind = "Ok"
        /\ Len(SpecOf(c)) = 2
        /\ \A i \in 1..2 : "logo" \in DOMAIN SpecOf(c)[i].embeddings
        /\ Cardinality(DOMAIN SpecOf(c)[1].embeddings) = 2
        /\ \E r1 \in EventsOf(tcall[c].log, "render", 1),
              r2 \in EventsOf(tcall[c].log, "render", 2) :
              tcall[c].log[r1].cids["logo"] # tcall[c].log[r2].cids["logo"]

\* The attachment ResourceSpec lists of the first n sub-templates, one after
\* the other.
RECURSIVE AttachmentSpecs(_, _)
AttachmentSpecs(spec, n) ==
    IF n = 0 THEN <<>> ELSE AttachmentSpecs(spec, n - 1) \o spec[n].attachments

\* The number of embeddings of the first n sub-templates.
RECURSIVE EmbeddingCount(_, _)
EmbeddingCount(spec, n) ==
    IF n = 0 THEN 0
    ELSE EmbeddingCount(spec, n - 1) + Cardinality(DOMAIN spec[n].embeddings)

\* The content-id requests a call made.
RequestCount(log) == Cardinality({j \in 1..Len(log) : log[j].op = "new_content_id"})

\* C13: the attachments a successful call returns are, in this order, the
\* attachments of the first sub-template in their order, then those of the
\* second, and so on, duplicates kept; each is a resource instantiated from
\* its spec that carries no content id, and the generator was asked once
\* per embedding only, never for an attachment.
C13_AttachmentsConcatenated ==
    \A c \in Calls :
        tcall[c].result.kind = "Ok" =>
            LET attachments == tcall[c].result.attachments
                specs == AttachmentSpecs(SpecOf(c), Len(SpecOf(c)))
            IN  /\ Len(attachments) = Len(specs)
                /\ \A j \in 1..Len(specs) :
                      /\ attachments[j].resource = from_spec(specs[j])
                      /\ DOMAIN attachments[j] = {"resource"}
                /\ RequestCount(tcall[c].log) = EmbeddingCount(SpecOf(c), Len(SpecOf(c)))

\* C13 happens: a successful call for two sub-templates with attachments,
\* the first listing one spec twice, returned four attachments.
C13_Witness ==
    \E c \in Calls :
        /\ tcall[c].result.kind = "Ok"
        /\ Len(SpecOf(c)) = 2
        /\ Len(SpecOf(c)[1].attachments) = 2
        /\ SpecOf(c)[1].attachments[1] = SpecOf(c)[1].attachments[2]
        /\ SpecOf(c)[2].attachments # SpecOf(c)[1].attachments
        /\ Len(tcall[c].result.attachments) = 4

\* C14: a call works strictly in sequence and stops at the first failure.
\* Its first call is the lookup of the template id, made once; an unknown id
\* ends it with UnknownTemplateId and no request or render call at all.  The
\* calls for sub-template i come before those for sub-template i + 1, which
\* start only after the render call for i succeeded; the render call for i
\* comes after a content-id request for each of its embeddings and is the
\* last call for i.  A failed content-id request or render call is the last
\* call the templates() call makes.
C14_SequentialStopAtFirstFailure ==
    \A c \in Calls :
        LET call == tcall[c]
            log == call.log
        IN  /\ call.pc = "idle" <=> log = <<>>
            /\ log # <<>> =>
                  /\ log[1].op = "lookup_spec"
                  /\ log[1].ok <=> call.template_id \in DOMAIN id2spec
                  /\ ~log[1].ok => Len(log) = 1 /\ call.result.kind = "UnknownTemplateId"
            /\ \A j \in 2..Len(log) :
                  /\ log[j].op \in {"new_content_id", "render"}
                  /\ log[j].i >= 1
                  /\ \A k \in (j + 1)..Len(log) :
                        /\ log[j].i <= log[k].i
                        /\ log[j].i = log[k].i => log[j].op = "new_content_id"
                  /\ log[j].i > 1 =>
                        \E k \in 2..(j - 1) :
                            log[k].op = "render" /\ log[k].i = log[j].i - 1 /\ log[k].ok
                  /\ log[j].op = "render" =>
                        \A n \in DOMAIN SpecOf(c)[log[j].i].embeddings :
                            \E k \in 2..(j - 1) :
                                /\ log[k].op = "new_content_id"
                                /\ log[k].i = log[j].i
                                /\ log[k].key = n
                                /\ log[k].ok
            /\ \A j \in 1..Len(log) :
                  ~log[j].ok => j = Len(log) /\ call.pc = "done"

\* C14 happens: a call looked its template up, requested the two ids of the
\* first sub-template, rendered it, and was ended by the failure of the
\* first content-id request of the second sub-template.
C14_Witness ==
    \E c \in Calls :
        LET log == tcall[c].log
        IN  /\ Len(log) = 5
            /\ log[1].op = "lookup_spec"
            /\ log[2].op = "new_content_id" /\ log[3].op = "new_content_id"
            /\ log[4].op = "render" /\ log[4].i = 1 /\ log[4].ok
            /\ log[5].op = "new_content_id" /\ log[5].i = 2 /\ ~log[5].ok
            /\ tcall[c].pc = "done"
            /\ tcall[c].result.kind = "CIdGenFailed"

=============================================================================
